---- MODULE Spec2Model ----
(***************************************************************************)
(* The sharded event engine of howtrader (howtrader/event/engine.py).      *)
(*                                                                         *)
(* One controlling thread calls start() and stop(); producers call put();  *)
(* other threads call the four registry operations; worker i runs _run(i)  *)
(* and the timer thread runs _run_timer().  Nothing in the engine takes a  *)
(* lock, so every thread is cut at every access to shared state (the       *)
(* active flag, a queue, the handler mapping, a handler list, a thread     *)
(* object) and the other threads interleave there.  The handler lists are  *)
(* objects: the mapping holds references into a heap, and a list iterator  *)
(* or a local variable keeps its list alive after the mapping dropped it.  *)
(***************************************************************************)
EXTENDS Integers, Sequences, FiniteSets, TLC

\* ---------------------------------------------------------------- bounds
N == 2              \* number of shards (constructor argument n)
MaxHash == 1        \* hash(type) ranges over 0..MaxHash
MaxPuts == 2        \* events published by the external producers
MaxTicks == 1       \* timer events produced while the engine is active
MaxCalls == 3       \* registry calls
MaxDispatched == 1  \* events published while registry calls are made
MaxSetup == 1       \* registry calls before the lifecycle calls
NCallers == 2       \* threads that call the registry operations at once

\* ------------------------------------------------------------- constants
EVENT_TIMER == "eTimer"
Types == {"X", EVENT_TIMER}
Handlers == {"A", "B"}
Faulty == {"B"}     \* the handlers whose call may raise
\* what a handler raises: queue.Empty, or an exception of any other class
Exceptions == {"Empty", "Error"}
Shards == 0 .. (N - 1)
HashVals == 0 .. MaxHash
Callers == 1 .. NCallers
ListIds == 1 .. (Cardinality(Types) + N + NCallers)
NoList == 0

NoData == 0         \* data = None: an event without payload
Event(type, data, id) == [type |-> type, data |-> data, id |-> id]
NoEvent == Event("", NoData, 0)

VARIABLES
    active,     \* self._active
    queues,     \* self._queues: shard -> sequence of events
    hashOf,     \* hash() of this process run: type -> integer
    handlers,   \* self._handlers: type -> list reference, NoList when no key
    heap,       \* the list objects: reference -> sequence of handlers
    general,    \* self._general_handlers
    w,          \* self._threads and the position of each worker in _run
    tpc,        \* self._timer and its position in _run_timer
    mpc,        \* position of the controlling thread inside start() or stop()
    mjoin,      \* index of the worker start() is starting or stop() is joining
    res,        \* the last call of the controlling thread and how it ended
    stopRet,    \* a stop() has returned normally
    nput,       \* number of events put by producers
    ntick,      \* number of events put by the timer
    nreg,       \* number of registry calls made
    noops,      \* history: the registrations that found the handler present
    enq,        \* history: shard -> the events enqueued, in order
    ended,      \* history: shard -> the dispatches that have ended, in order
    rc,         \* the threads inside a registry call, statement by statement
    rcalls,     \* history: the register and unregister calls made, in order
    mark        \* history: what stop() found when it was last called

vars == <<active, queues, hashOf, handlers, heap, general, w, tpc, mpc, mjoin,
          res, stopRet, nput, ntick, nreg, noops, enq, ended, rc, rcalls, mark>>

\* what a registry call leaves alone
outside == <<active, queues, hashOf, tpc, mpc, mjoin, res, stopRet, nput,
             ntick, enq, ended, mark>>

\* what a worker, the timer and the controlling thread leave alone
callers == <<rc, rcalls, nreg, noops>>

\* --------------------------------------------------------------- helpers
Range(s) == {s[k] : k \in 1 .. Len(s)}
NoDup(s) == \A p, q \in 1 .. Len(s) : p /= q => s[p] /= s[q]

\* list.remove(x): drops the first occurrence of x
RECURSIVE Remove(_, _)
Remove(s, x) ==
    IF s = <<>> THEN <<>>
    ELSE IF Head(s) = x THEN Tail(s)
    ELSE <<Head(s)>> \o Remove(Tail(s), x)

\* history: the number of timer events produced and the number of events
\* each worker had taken when stop() was called
Noted(ticks, taken) == [ticks |-> ticks, taken |-> taken]

\* a worker outside a dispatch refers to no list
\* (calls, snapT, snapG, dirty, gone are history: the handler calls of the
\* dispatch under way, the two handler lists when it began, whether the
\* registry changed since, and the handlers that left one of the two lists)
Idle(pc) == [pc |-> pc, ev |-> NoEvent, lst |-> NoList, idx |-> 0, h |-> "",
             calls |-> <<>>, snapT |-> <<>>, snapG |-> <<>>, dirty |-> FALSE,
             gone |-> {}]

\* the positions of a worker inside _process: the test of line 81, the
\* subscript of line 82, the first next() of its iterator, a handler of the
\* type, the test of line 84, the first next() of line 85, a general handler
InProcess == {"pcheck", "plookup", "piter", "pcall", "gcheck", "giter", "gcall"}

Dispatching(i) == w[i].pc \in InProcess
Finished(i) == w[i].pc \in {"done", "crashed"}

\* the event worker i is dispatching, if any
InDispatch(i) == IF Dispatching(i) THEN <<w[i].ev>> ELSE <<>>

\* a thread outside a registry call; err: one of its calls has raised
NoCall(err) == [pc |-> "idle", op |-> "", t |-> "", h |-> "", lst |-> NoList,
                err |-> err]

\* history: the number of events worker i has taken from its queue
Taken(i) == Len(ended[i]) + Len(InDispatch(i))

\* the list objects that are still referenced: by the mapping, by an iterator
\* of a worker, by the local handler_list of a registry call
LiveFor(hs, ws, rs) ==
    {hs[t] : t \in Types} \cup {ws[i].lst : i \in Shards}
        \cup {rs[c].lst : c \in Callers}
Live(hs, ws) == LiveFor(hs, ws, rc)
\* an unreferenced list object is freed
CollectFor(hp, hs, ws, rs) ==
    [l \in ListIds |-> IF l \in LiveFor(hs, ws, rs) THEN hp[l] ELSE <<>>]
Collect(hp, hs, ws) == CollectFor(hp, hs, ws, rc)
NewList(hs, ws) == CHOOSE l \in ListIds :
    /\ l \notin Live(hs, ws)
    /\ \A k \in ListIds : k \notin Live(hs, ws) => l <= k

\* the handler list of a type as the mapping shows it
ListOf(t) == IF handlers[t] = NoList THEN <<>> ELSE heap[handlers[t]]

\* the registry as a caller sees it: the keys and the content of their lists
View(hs, hp, g) == <<[t \in Types |-> IF hs[t] = NoList THEN <<"-">> ELSE hp[hs[t]]], g>>

Entry(hs, hp, t) == IF hs[t] = NoList THEN <<>> ELSE hp[hs[t]]

\* history: every dispatch under way notes a change of the registry to
\* (hs, hp, g), and the handlers that left the lists of its event
Mark(ws, hs, hp, g) ==
    [i \in Shards |->
        IF ws[i].pc \in InProcess
           /\ View(hs, hp, g) /= View(handlers, heap, general)
        THEN [ws[i] EXCEPT
                !.dirty = TRUE,
                !.gone = @ \cup
                    {[h |-> h, kind |-> "type"] :
                        h \in Range(ListOf(ws[i].ev.type))
                              \ Range(Entry(hs, hp, ws[i].ev.type))}
                    \cup
                    {[h |-> h, kind |-> "general"] :
                        h \in Range(general) \ Range(g)}]
        ELSE ws[i]]

Result(op, err, busy, was) == [op |-> op, err |-> err, busy |-> busy, was |-> was]

\* ------------------------------------------------------------------ Init
Init ==
    /\ active = FALSE
    /\ queues = [i \in Shards |-> <<>>]
    /\ hashOf \in [Types -> HashVals]
    /\ handlers = [t \in Types |-> NoList]
    /\ heap = [l \in ListIds |-> <<>>]
    /\ general = <<>>
    /\ w = [i \in Shards |-> Idle("initial")]
    /\ tpc = "initial"
    /\ mpc = "idle"
    /\ mjoin = 0
    /\ res = Result("none", FALSE, {}, FALSE)
    /\ mark = Noted(0, [i \in Shards |-> 0])
    /\ stopRet = FALSE
    /\ nput = 0
    /\ ntick = 0
    /\ nreg = 0
    /\ noops = {}
    /\ enq = [i \in Shards |-> <<>>]
    /\ ended = [i \in Shards |-> <<>>]
    /\ rc = [c \in Callers |-> NoCall(FALSE)]
    /\ rcalls = <<>>

\* ------------------------------------------------------------------- put
\* a routing to the shard with the shortest queue
ShardLeastLoaded(t) ==
    CHOOSE i \in Shards : \A j \in Shards : Len(queues[i]) <= Len(queues[j])

\* index = hash(event.type) % self._n
ShardOf(t) == hashOf[t] % N

\* queue.put(event) on the queue of the event's shard
Enqueue(qs, e) == [qs EXCEPT ![ShardOf(e.type)] = Append(@, e)]

\* events are told apart by the shard they are put on and their rank on it
NextId(t) == Len(enq[ShardOf(t)]) + 1

\* a put() that takes events only while the engine is active
PutWhenActive(t) ==
    /\ active
    /\ nput < MaxPuts
    /\ queues' = Enqueue(queues, Event(t, NextId(t), NextId(t)))
    /\ enq' = Enqueue(enq, Event(t, NextId(t), NextId(t)))
    /\ nput' = nput + 1
    /\ UNCHANGED <<active, hashOf, handlers, heap, general, w, tpc, mpc, mjoin,
                   res, stopRet, ntick, ended, mark, callers>>

\* a producer publishes an event of type t; the payload is its rank
Put(t) ==
    /\ nput < MaxPuts
    /\ queues' = Enqueue(queues, Event(t, NextId(t), NextId(t)))
    /\ enq' = Enqueue(enq, Event(t, NextId(t), NextId(t)))
    /\ nput' = nput + 1
    /\ UNCHANGED <<active, hashOf, handlers, heap, general, w, tpc, mpc, mjoin,
                   res, stopRet, ntick, ended, mark, callers>>

\* -------------------------------------------------------------- registry
\* The four registry operations take no lock: a thread inside one of them is
\* cut between its statements, and the workers and the other callers
\* interleave there.
TypeOps == {"register", "unregister"}
GeneralOps == {"register_general", "unregister_general"}
Adds == {"register", "register_general"}

\* defaultdict.__getitem__: a missing key gets a new empty list
GetItem(hs, ws, t) ==
    IF hs[t] = NoList THEN [hs EXCEPT ![t] = NewList(hs, ws)] ELSE hs

\* handler not in handler_list
Absent(s, h) == h \notin Range(s)

\* the list the call of thread c works on: its local handler_list, or
\* self._general_handlers
Target(c) == IF rc[c].op \in TypeOps THEN heap[rc[c].lst] ELSE general

\* the list objects and the general list once that list holds s
Stored(c, s) ==
    IF rc[c].op \in TypeOps
    THEN [hp |-> [heap EXCEPT ![rc[c].lst] = s], g |-> general]
    ELSE [hp |-> heap, g |-> s]

\* thread c goes on as r and leaves the registry as (hs, hp, g)
Step(c, r, hs, hp, g) ==
    /\ rc' = [rc EXCEPT ![c] = r]
    /\ handlers' = hs
    /\ heap' = CollectFor(hp, hs, w, rc')
    /\ general' = g
    /\ w' = Mark(w, hs, hp, g)

\* thread c goes on to the statement at pc
Goto(c, pc) == Step(c, [rc[c] EXCEPT !.pc = pc], handlers, heap, general)

\* thread c leaves its call, with the list it worked on holding s: its
\* handler_list goes out of scope
Return(c, s, err) ==
    Step(c, NoCall(rc[c].err \/ err), handlers, Stored(c, s).hp, Stored(c, s).g)

\* thread c calls register(t, h) or unregister(t, h), and the calls made so
\* far become cs: handler_list = self._handlers[type]
CallFetchNoting(c, op, t, h, cs) ==
    /\ rc[c].pc = "idle"
    /\ nreg < MaxCalls
    /\ Step(c, [pc |-> "test", op |-> op, t |-> t, h |-> h,
                lst |-> GetItem(handlers, w, t)[t], err |-> rc[c].err],
            GetItem(handlers, w, t), heap, general)
    /\ nreg' = nreg + 1
    /\ rcalls' = cs
    /\ UNCHANGED <<outside, noops>>

CallFetch(c, op, t, h) == CallFetchNoting(c, op, t, h, rcalls)

\* the same call, with the history of the calls made
CallFetchNoted(c, op, t, h) ==
    CallFetchNoting(c, op, t, h, Append(rcalls, [op |-> op, t |-> t, h |-> h]))

\* the record of a call op(t, h) that found nothing to do
Found(op, t, h) == [op |-> op, t |-> t, h |-> h]

\* the test of a call finds that the call has something to do
\* register, register_general: if handler not in the list
\* unregister, unregister_general: if handler in the list
ToDo(op, s, h) == IF op \in Adds THEN Absent(s, h) ELSE ~Absent(s, h)

\* thread c calls register_general(h) or unregister_general(h): the test of
\* the general list is its first statement
CallGeneral(c, op, h) ==
    /\ rc[c].pc = "idle"
    /\ nreg < MaxCalls
    /\ IF ToDo(op, general, h)
       THEN /\ Step(c, [pc |-> "act", op |-> op, t |-> "", h |-> h,
                        lst |-> NoList, err |-> rc[c].err],
                    handlers, heap, general)
            /\ UNCHANGED noops
       ELSE /\ Step(c, rc[c], handlers, heap, general)
            /\ noops' = IF op \in Adds
                         THEN noops \cup {Found(op, "", h)}
                         ELSE noops
    /\ nreg' = nreg + 1
    /\ UNCHANGED <<outside, rcalls>>

\* register: if handler not in handler_list
\* unregister: if handler in handler_list
CallerTest(c) ==
    /\ rc[c].pc = "test"
    /\ IF ToDo(rc[c].op, Target(c), rc[c].h)
       THEN Goto(c, "act") /\ UNCHANGED noops
       ELSE IF rc[c].op = "register"
            THEN /\ Return(c, Target(c), FALSE)
                 /\ noops' = noops \cup {Found(rc[c].op, rc[c].t, rc[c].h)}
            ELSE Goto(c, "test2") /\ UNCHANGED noops
    /\ UNCHANGED <<outside, rcalls, nreg>>

\* register, register_general: the list's append(handler)
\* unregister, unregister_general: the list's remove(handler), which raises
\* ValueError when the handler is no longer in the list
CallerAct(c) ==
    /\ rc[c].pc = "act"
    /\ IF rc[c].op \in Adds
       THEN Return(c, Append(Target(c), rc[c].h), FALSE)
       ELSE IF rc[c].h \notin Range(Target(c))
            THEN Return(c, Target(c), TRUE)
            ELSE IF rc[c].op = "unregister"
                 THEN Step(c, [rc[c] EXCEPT !.pc = "test2"], handlers,
                           Stored(c, Remove(Target(c), rc[c].h)).hp, general)
                 ELSE Return(c, Remove(Target(c), rc[c].h), FALSE)
    /\ UNCHANGED <<outside, rcalls, nreg, noops>>

\* unregister: if not handler_list
CallerTest2(c) ==
    /\ rc[c].pc = "test2"
    /\ IF Target(c) = <<>>
       THEN Goto(c, "pop")
       ELSE Return(c, Target(c), FALSE)
    /\ UNCHANGED <<outside, rcalls, nreg, noops>>

\* unregister: self._handlers.pop(type), which drops whatever list the key
\* holds and raises KeyError when the key is gone
CallerPop(c) ==
    /\ rc[c].pc = "pop"
    /\ IF handlers[rc[c].t] /= NoList
       THEN Step(c, NoCall(rc[c].err), [handlers EXCEPT ![rc[c].t] = NoList],
                 heap, general)
       ELSE Return(c, Target(c), TRUE)
    /\ UNCHANGED <<outside, rcalls, nreg, noops>>

\* --------------------------------------------------------------- workers
\* a worker loop that does not read the flag
WorkerLoopOn(i) ==
    /\ w[i].pc = "loop"
    /\ w' = [w EXCEPT ![i].pc = "get"]
    /\ UNCHANGED <<active, queues, hashOf, handlers, heap, general, tpc, mpc,
                   mjoin, res, stopRet, nput, ntick, enq, ended, mark, callers>>

\* a worker loop that goes on until its queue is empty
WorkerLoopDrain(i) ==
    /\ w[i].pc = "loop"
    /\ w' = [w EXCEPT ![i].pc = IF active \/ queues[i] /= <<>> THEN "get" ELSE "done"]
    /\ UNCHANGED <<active, queues, hashOf, handlers, heap, general, tpc, mpc,
                   mjoin, res, stopRet, nput, ntick, enq, ended, mark, callers>>

\* while self._active:
WorkerLoop(i) ==
    /\ w[i].pc = "loop"
    /\ w' = [w EXCEPT ![i].pc = IF active THEN "get" ELSE "done"]
    /\ UNCHANGED <<active, queues, hashOf, handlers, heap, general, tpc, mpc,
                   mjoin, res, stopRet, nput, ntick, enq, ended, mark, callers>>

\* a queue that hands out its newest item
DequeueNewest(q) == [item |-> q[Len(q)], rest |-> SubSeq(q, 1, Len(q) - 1)]

\* Queue.get: the oldest item, and what stays in the queue
Dequeue(q) == [item |-> Head(q), rest |-> Tail(q)]

\* a worker that takes from another shard's queue when its own is empty
WorkerGetAny(i) ==
    /\ w[i].pc = "get"
    /\ LET full == {j \in Shards : queues[j] /= <<>>}
           src == IF i \in full \/ full = {} THEN i ELSE CHOOSE j \in full : TRUE
       IN IF queues[src] = <<>>
          THEN /\ w' = [w EXCEPT ![i].pc = "loop"]
               /\ UNCHANGED queues
          ELSE /\ queues' = [queues EXCEPT ![src] = Tail(@)]
               /\ w' = [w EXCEPT ![i] =
                         [Idle("pcheck") EXCEPT
                             !.ev = Head(queues[src]),
                             !.snapT = ListOf(Head(queues[src]).type),
                             !.snapG = general]]
    /\ UNCHANGED <<active, hashOf, handlers, heap, general, tpc, mpc, mjoin,
                   res, stopRet, nput, ntick, enq, ended, mark, callers>>

\* event = queue.get(block=True, timeout=1); Empty sends the worker back to
\* the test of the flag
WorkerGet(i) ==
    /\ w[i].pc = "get"
    /\ IF queues[i] = <<>>
       THEN /\ w' = [w EXCEPT ![i].pc = "loop"]
            /\ UNCHANGED queues
       ELSE /\ queues' = [queues EXCEPT ![i] = Dequeue(@).rest]
            /\ w' = [w EXCEPT ![i] =
                      [Idle("pcheck") EXCEPT
                          !.ev = Dequeue(queues[i]).item,
                          !.snapT = ListOf(Dequeue(queues[i]).item.type),
                          !.snapG = general]]
    /\ UNCHANGED <<active, hashOf, handlers, heap, general, tpc, mpc, mjoin,
                   res, stopRet, nput, ntick, enq, ended, mark, callers>>

Called(c, h, kind) == Append(c, [h |-> h, kind |-> kind])

\* next() of the list iterator of a comprehension, at index idx of the list
\* s, for the worker record r: the call of the next handler, or the end of
\* the comprehension.  After the comprehension of line 82 comes the test of
\* the general list (line 84), after that of line 85 _process returns to the
\* loop of _run.
IterNext(r, s, idx, kind) ==
    IF idx < Len(s)
    THEN [r EXCEPT !.pc = IF kind = "type" THEN "pcall" ELSE "gcall",
                   !.idx = idx + 1, !.h = s[idx + 1],
                   !.calls = Called(@, s[idx + 1], kind)]
    ELSE IF kind = "type"
    THEN [r EXCEPT !.pc = "gcheck", !.lst = NoList, !.idx = 0, !.h = ""]
    ELSE Idle("loop")

\* history: the dispatch of worker i has ended after its calls, by the return
\* of _process or by an exception
Ended(i, how) ==
    Append(ended[i], [ev |-> w[i].ev, calls |-> Len(w[i].calls), how |-> how])

\* worker i moves on to the record r
Advance(i, ws, r) ==
    /\ w' = [ws EXCEPT ![i] = r]
    /\ ended' = IF r.pc = "loop"
                THEN [ended EXCEPT ![i] = Ended(i, "returned")]
                ELSE ended
    /\ heap' = Collect(heap, handlers', w')

\* if event.type in self._handlers: a type without key has no comprehension
WorkerCheck(i) ==
    /\ w[i].pc = "pcheck"
    /\ UNCHANGED handlers
    /\ Advance(i, w, [w[i] EXCEPT !.pc = IF handlers[w[i].ev.type] /= NoList
                                         THEN "plookup" ELSE "gcheck"])
    /\ UNCHANGED <<active, queues, hashOf, general, tpc, mpc, mjoin, res,
                   stopRet, nput, ntick, enq, mark, callers>>

\* for handler in self._handlers[event.type]: the subscript is a defaultdict
\* access, and the iterator holds the list it returned
WorkerLookup(i) ==
    /\ w[i].pc = "plookup"
    /\ handlers' = GetItem(handlers, w, w[i].ev.type)
    /\ Advance(i, Mark(w, handlers', heap, general),
               [Mark(w, handlers', heap, general)[i] EXCEPT
                   !.pc = "piter", !.lst = handlers'[w[i].ev.type], !.idx = 0])
    /\ UNCHANGED <<active, queues, hashOf, general, tpc, mpc, mjoin, res,
                   stopRet, nput, ntick, enq, mark, callers>>

\* the worker record after next() of the iterator it is in
AfterReturn(i) ==
    IF w[i].pc \in {"piter", "pcall"}
    THEN IterNext(w[i], heap[w[i].lst], w[i].idx, "type")
    ELSE IterNext(w[i], general, w[i].idx, "general")

\* the first next() of the iterator of a comprehension
WorkerIter(i) ==
    /\ w[i].pc \in {"piter", "giter"}
    /\ UNCHANGED handlers
    /\ Advance(i, w, AfterReturn(i))
    /\ UNCHANGED <<active, queues, hashOf, general, tpc, mpc, mjoin, res,
                   stopRet, nput, ntick, enq, mark, callers>>

\* handler(event) returns and the iterator moves on
WorkerReturn(i) ==
    /\ w[i].pc \in {"pcall", "gcall"}
    /\ UNCHANGED handlers
    /\ Advance(i, w, AfterReturn(i))
    /\ UNCHANGED <<active, queues, hashOf, general, tpc, mpc, mjoin, res,
                   stopRet, nput, ntick, enq, mark, callers>>

\* if self._general_handlers: an empty general list has no comprehension
WorkerGeneral(i) ==
    /\ w[i].pc = "gcheck"
    /\ UNCHANGED handlers
    /\ Advance(i, w, IF general /= <<>>
                     THEN [w[i] EXCEPT !.pc = "giter", !.idx = 0]
                     ELSE Idle("loop"))
    /\ UNCHANGED <<active, queues, hashOf, general, tpc, mpc, mjoin, res,
                   stopRet, nput, ntick, enq, mark, callers>>

\* where an exception of class x that leaves _process sends the worker:
\* `except Empty: pass` of _run takes it back to the test of the flag, any
\* other exception leaves _run and ends the thread
Caught(x) == IF x = "Empty" THEN "loop" ELSE "crashed"

\* handler(event) raises x: _process catches nothing, the dispatch is over
WorkerRaise(i, x) ==
    /\ w[i].pc \in {"pcall", "gcall"}
    /\ w[i].h \in Faulty
    /\ w' = [w EXCEPT ![i] = Idle(Caught(x))]
    /\ ended' = [ended EXCEPT ![i] = Ended(i, "raised")]
    /\ heap' = Collect(heap, handlers, w')
    /\ UNCHANGED <<active, queues, hashOf, handlers, general, tpc, mpc, mjoin,
                   res, stopRet, nput, ntick, enq, mark, callers>>

\* ----------------------------------------------------------------- timer
\* a timer loop that does not read the flag
TimerLoopOn ==
    /\ tpc = "loop"
    /\ tpc' = "sleep"
    /\ UNCHANGED <<active, queues, hashOf, handlers, heap, general, w, mpc,
                   mjoin, res, stopRet, nput, ntick, enq, ended, mark, callers>>

\* while self._active:
TimerLoop ==
    /\ tpc = "loop"
    /\ tpc' = IF active THEN "sleep" ELSE "done"
    /\ UNCHANGED <<active, queues, hashOf, handlers, heap, general, w, mpc,
                   mjoin, res, stopRet, nput, ntick, enq, ended, mark, callers>>

\* sleep(self._interval); self.put(Event(EVENT_TIMER)): the sleep of an active
\* engine lasts on once MaxTicks events were produced
TimerPut ==
    /\ tpc = "sleep"
    /\ ntick < MaxTicks \/ ~active
    /\ queues' = Enqueue(queues, Event(EVENT_TIMER, NoData, NextId(EVENT_TIMER)))
    /\ enq' = Enqueue(enq, Event(EVENT_TIMER, NoData, NextId(EVENT_TIMER)))
    /\ ntick' = ntick + 1
    /\ tpc' = "loop"
    /\ UNCHANGED <<active, hashOf, handlers, heap, general, w, mpc, mjoin,
                   res, stopRet, nput, ended, mark, callers>>

\* ------------------------------------------------------------- lifecycle
\* a Thread.start() that runs the thread anew, whatever its state
StartableAlways(pc) == TRUE

\* Thread.start() raises RuntimeError on a thread, at position pc, that was
\* started before
Startable(pc) == pc = "initial"

InHandler == {i \in Shards : w[i].pc \in {"pcall", "gcall"}}

\* start(): self._active = True, before any thread is started
StartCall ==
    /\ mpc = "idle"
    /\ active' = TRUE
    /\ mpc' = "start_worker"
    /\ mjoin' = 0
    /\ res' = Result("start", FALSE, {}, active)
    /\ UNCHANGED <<queues, hashOf, handlers, heap, general, w, tpc, stopRet,
                   nput, ntick, enq, ended, mark, callers>>

\* for i in range(self._n): self._threads[i].start(), one thread per step;
\* the threads before it in the loop are running by then
StartWorker ==
    /\ mpc = "start_worker"
    /\ IF Startable(w[mjoin].pc)
       THEN /\ w' = [w EXCEPT ![mjoin] = Idle("loop")]
            /\ mpc' = IF mjoin = N - 1 THEN "start_timer" ELSE mpc
            /\ mjoin' = IF mjoin = N - 1 THEN 0 ELSE mjoin + 1
            /\ UNCHANGED res
       ELSE /\ res' = [res EXCEPT !.err = TRUE]
            /\ mpc' = "idle"
            /\ mjoin' = 0
            /\ UNCHANGED w
    /\ UNCHANGED <<active, queues, hashOf, handlers, heap, general, tpc,
                   stopRet, nput, ntick, enq, ended, mark, callers>>

\* self._timer.start(), after which start() returns
StartTimer ==
    /\ mpc = "start_timer"
    /\ IF Startable(tpc)
       THEN tpc' = "loop" /\ UNCHANGED res
       ELSE res' = [res EXCEPT !.err = TRUE] /\ UNCHANGED tpc
    /\ mpc' = "idle"
    /\ UNCHANGED <<active, queues, hashOf, handlers, heap, general, w, mjoin,
                   stopRet, nput, ntick, enq, ended, mark, callers>>

\* stop(): self._active = False, then self._timer.join(), which raises
\* RuntimeError on a thread that was never started
StopCallNoting(m) ==
    /\ mpc = "idle"
    /\ mark' = m
    /\ active' = FALSE
    /\ IF tpc = "initial"
       THEN /\ res' = Result("stop", TRUE, InHandler, active)
            /\ UNCHANGED mpc
       ELSE /\ res' = Result("stop", FALSE, InHandler, active)
            /\ mpc' = "join_timer"
    /\ mjoin' = 0
    /\ UNCHANGED <<queues, hashOf, handlers, heap, general, w, tpc, stopRet,
                   nput, ntick, enq, ended, callers>>

StopCall == StopCallNoting(mark)

\* the same call, with the history of what it found
StopCallNoted ==
    StopCallNoting(Noted(ntick, [i \in Shards |-> Taken(i)]))

\* a join() that does not wait
JoinedAtOnce(pc) == TRUE

\* Thread.join() returns once the thread, at position pc, has ended: its
\* loop was left, or an exception ended it
Joined(pc) == pc \in {"done", "crashed"}

\* self._timer.join() returns once the timer thread has ended
StopJoinTimer ==
    /\ mpc = "join_timer"
    /\ Joined(tpc)
    /\ mpc' = "join_worker"
    /\ UNCHANGED <<active, queues, hashOf, handlers, heap, general, w, tpc,
                   mjoin, res, stopRet, nput, ntick, enq, ended, mark, callers>>

\* self._threads[i].join() for i = 0 .. n-1; stop() returns after the last
StopJoinWorker ==
    /\ mpc = "join_worker"
    /\ Joined(w[mjoin].pc)
    /\ IF mjoin = N - 1
       THEN /\ mpc' = "idle"
            /\ mjoin' = 0
            /\ stopRet' = TRUE
       ELSE /\ mjoin' = mjoin + 1
            /\ UNCHANGED <<mpc, stopRet>>
    /\ UNCHANGED <<active, queues, hashOf, handlers, heap, general, w, tpc,
                   res, nput, ntick, enq, ended, mark, callers>>

\* ------------------------------------------------------------------ Next
\* the external producers publish events of every type
Produce == \E t \in Types : Put(t)

\* thread c calls a registry operation
Calling(c) ==
    \/ \E op \in TypeOps, t \in Types, h \in Handlers : CallFetch(c, op, t, h)
    \/ \E op \in GeneralOps, h \in Handlers : CallGeneral(c, op, h)

\* thread c goes on inside its registry call
Caller(c) == CallerTest(c) \/ CallerAct(c) \/ CallerTest2(c) \/ CallerPop(c)

Registry == \E c \in Callers : Calling(c) \/ Caller(c)

Worker ==
    \/ \E i \in Shards : WorkerLoop(i)
    \/ \E i \in Shards : WorkerGet(i)
    \/ \E i \in Shards : WorkerCheck(i)
    \/ \E i \in Shards : WorkerLookup(i)
    \/ \E i \in Shards : WorkerIter(i)
    \/ \E i \in Shards : WorkerGeneral(i)
    \/ \E i \in Shards : WorkerReturn(i)
    \/ \E i \in Shards, x \in Exceptions : WorkerRaise(i, x)

Timer == TimerLoop \/ TimerPut

Start == StartCall \/ StartWorker \/ StartTimer

Stop == StopCall \/ StopJoinTimer \/ StopJoinWorker

\* every call and every thread
Next == Produce \/ Registry \/ Worker \/ Timer \/ Start \/ Stop

Spec == Init /\ [][Next]_vars

\* the one thread whose registry calls come one after the other
Client == CHOOSE c \in Callers : \A d \in Callers : c <= d

\* The engine under publication and under the registry calls of one thread,
\* made one after the other, for one type and for the general list, while the
\* workers dispatch: it is started and not stopped, and the timer interval
\* outlasts the run.
NextDispatch ==
    \/ nput < MaxDispatched /\ Produce
    \/ \E op \in TypeOps, h \in Handlers : CallFetch(Client, op, "X", h)
    \/ \E op \in GeneralOps, h \in Handlers : CallGeneral(Client, op, h)
    \/ Caller(Client)
    \/ Worker
    \/ Start

SpecDispatch == Init /\ [][NextDispatch]_vars

\* no registry call is under way
Settled == \A c \in Callers : rc[c].pc = "idle"

\* the handlers are registered by one thread before the first lifecycle call
Setup ==
    \/ /\ res.op = "none"
       /\ nreg < MaxSetup
       /\ \/ \E h \in Handlers : CallFetch(Client, "register", "X", h)
          \/ \E h \in Handlers : CallGeneral(Client, "register_general", h)
    \/ CallerTest(Client)
    \/ CallerAct(Client)

\* the controlling thread: it calls start() and stop() once the
\* registrations have returned
Control ==
    \/ Settled /\ StartCall
    \/ StartWorker
    \/ StartTimer
    \/ Settled /\ StopCall
    \/ StopJoinTimer
    \/ StopJoinWorker

\* The engine under publication on its shards: the handlers are registered
\* before start() and stay, the engine is not stopped and the timer interval
\* outlasts the run.
NextShards ==
    \/ Produce
    \/ Setup
    \/ Worker
    \/ Settled /\ StartCall
    \/ StartWorker
    \/ StartTimer

SpecShards == Init /\ [][NextShards]_vars

\* The engine under start() and stop(): the handlers are registered before
\* the first lifecycle call and stay.
NextLifecycle == Put("X") \/ Setup \/ Worker \/ Timer \/ Control

SpecLifecycle == Init /\ [][NextLifecycle]_vars

\* the same clients, with the history of each stop() call
ControlNoted ==
    \/ Settled /\ StartCall
    \/ StartWorker
    \/ StartTimer
    \/ Settled /\ StopCallNoted
    \/ StopJoinTimer
    \/ StopJoinWorker

NextLifecycleNoted == Put("X") \/ Setup \/ Worker \/ Timer \/ ControlNoted

SpecLifecycleNoted == Init /\ [][NextLifecycleNoted]_vars

\* The engine whose events are all published before the first lifecycle
\* call, then started and stopped.
EarlyPut == res.op = "none" /\ Put("X")

NextEarly == EarlyPut \/ Setup \/ Worker \/ Timer \/ Control

SpecEarly == Init /\ [][NextEarly]_vars

\* The registry under calls of register() and unregister() from several
\* threads at once; the engine is not started.
NextRegistry ==
    \/ \E c \in Callers, op \in TypeOps, t \in Types, h \in Handlers :
          CallFetchNoted(c, op, t, h)
    \/ \E c \in Callers : CallerTest(c)
    \/ \E c \in Callers : CallerAct(c)
    \/ \E c \in Callers : CallerTest2(c)
    \/ \E c \in Callers : CallerPop(c)

SpecRegistry == Init /\ [][NextRegistry]_vars

\* every step of one worker thread
WorkerStep(i) ==
    \/ WorkerLoop(i) \/ WorkerGet(i) \/ WorkerCheck(i) \/ WorkerLookup(i)
    \/ WorkerIter(i) \/ WorkerGeneral(i) \/ WorkerReturn(i)
    \/ \E x \in Exceptions : WorkerRaise(i, x)

\* the steps of the controlling thread inside a call it has made
Inside == StartWorker \/ StartTimer \/ StopJoinTimer \/ StopJoinWorker

\* Every thread that can run does run, and a handler that was called returns
\* or raises: the worker threads, the timer thread, and the controlling
\* thread inside start() and stop().
Scheduling ==
    /\ \A i \in Shards : WF_vars(WorkerStep(i))
    /\ WF_vars(Timer)
    /\ WF_vars(Inside)

SpecLifecycleFair == SpecLifecycle /\ Scheduling

\* Every worker thread that can run does run, a handler that was called
\* returns or raises, and start() goes on to its end.
DispatchScheduling ==
    /\ \A i \in Shards : WF_vars(WorkerStep(i))
    /\ WF_vars(StartWorker \/ StartTimer)

SpecDispatchFair == SpecDispatch /\ DispatchScheduling

\* the shard whose handlers may never return
Stalled == CHOOSE i \in Shards : \A j \in Shards : i <= j

\* Every thread that can run does run, but a handler called on the stalled
\* shard need not return.
StallScheduling ==
    /\ \A i \in Shards \ {Stalled} : WF_vars(WorkerStep(i))
    /\ WF_vars(WorkerLoop(Stalled) \/ WorkerGet(Stalled)
                  \/ WorkerCheck(Stalled) \/ WorkerLookup(Stalled)
                  \/ WorkerIter(Stalled) \/ WorkerGeneral(Stalled))
    /\ WF_vars(Timer)
    /\ WF_vars(Inside)

SpecLifecycleStall == SpecLifecycle /\ StallScheduling

\* ---------------------------------------------------------------- claims
IsPrefix(a, b) == Len(a) <= Len(b) /\ \A k \in 1 .. Len(a) : a[k] = b[k]
Events(s) == [k \in 1 .. Len(s) |-> s[k].ev]
Count(c, h, kind) == Cardinality({k \in 1 .. Len(c) : c[k] = [h |-> h, kind |-> kind]})
CallsOf(s, kind) == [k \in 1 .. Len(s) |-> [h |-> s[k], kind |-> kind]]
OfKind(c, kind) == SelectSeq(c, LAMBDA x : x.kind = kind)
InCall(i) == w[i].pc \in {"pcall", "gcall"}
Alive(pc) == pc \notin {"initial", "done", "crashed"}

\* the step ends the dispatch of worker i, by the return of _process or by an
\* exception
DispatchEnds(i) == Len(ended'[i]) = Len(ended[i]) + 1

\* the step ends the dispatch of worker i by the return of _process
Returns(i) ==
    /\ DispatchEnds(i)
    /\ ended'[i][Len(ended'[i])].how = "returned"

\* a handler has raised on shard i
Raised(i) == \E k \in 1 .. Len(ended[i]) : ended[i][k].how = "raised"

\* C1: per-shard FIFO. On every shard the events whose dispatch has ended are
\* the first events enqueued there, in enqueue order, and the event whose
\* handlers are being invoked is the next one enqueued: no handler is invoked
\* for an event before the dispatch of every event enqueued earlier on the
\* same shard has ended.
C1_PerShardFifo ==
    \A i \in Shards :
        /\ IsPrefix(Events(ended[i]), enq[i])
        /\ Dispatching(i) =>
              /\ Len(ended[i]) < Len(enq[i])
              /\ enq[i][Len(ended[i]) + 1] = w[i].ev

\* a handler is being invoked for the second of two events of one type, after
\* a handler was invoked for the first
C1_Witness ==
    \E i \in Shards :
        /\ InCall(i)
        /\ Len(ended[i]) = 1
        /\ ended[i][1].calls > 0
        /\ ended[i][1].ev.type = w[i].ev.type
        /\ ended[i][1].ev.id < w[i].ev.id

\* C2: handler fault isolation. A step in which a handler raises leaves the
\* worker where the return of that handler would have left it: the next
\* handler of the event is being called, or the worker has gone on to the
\* general handlers or is back in its loop.
C2_FaultIsolation ==
    [][\A i \in Shards : \A x \in Exceptions :
          WorkerRaise(i, x) => w'[i] = AfterReturn(i)]_vars

\* handler h was in the list of the given kind when the dispatch of worker i
\* began and has not left it since
Stayed(i, h, kind) ==
    /\ h \in Range(IF kind = "type" THEN w[i].snapT ELSE w[i].snapG)
    /\ [h |-> h, kind |-> kind] \notin w[i].gone

\* a register(t, h) call found h in the list of t: h was registered twice
Twice(t, h) == Found("register", t, h) \in noops

\* C3: idempotent registration. No handler is twice in the list of a type or
\* in the general list, and in a dispatch a handler that stays registered for
\* the type of the event is not called twice as a handler of the type.  When
\* the dispatch of an event ends, by the return of _process or by an
\* exception, every handler that was registered twice for the type of the
\* event and stayed registered during the dispatch has been called exactly
\* once for it as a handler of the type.
C3_IdempotentRegistration ==
    /\ [](/\ \A l \in ListIds : NoDup(heap[l])
          /\ NoDup(general)
          /\ \A i \in Shards : \A h \in Handlers :
                Stayed(i, h, "type") => Count(w[i].calls, h, "type") <= 1)
    /\ [][\A i \in Shards : DispatchEnds(i) =>
            \A h \in Handlers :
                (Stayed(i, h, "type") /\ Twice(w[i].ev.type, h))
                    => Count(w[i].calls, h, "type") = 1]_vars

\* no registry call is under way and the mapping holds no empty list
Pruned ==
    Settled => \A t \in Types : handlers[t] /= NoList => heap[handlers[t]] /= <<>>

\* thread c returns from unregister(t, h) without error
Unregistered(c, t, h) ==
    /\ rc[c].op = "unregister" /\ rc[c].t = t /\ rc[c].h = h
    /\ rc'[c].pc = "idle"
    /\ rc'[c].err = rc[c].err

\* C4: pruning on unregister. Whenever no register or unregister call is
\* under way, the mapping holds no type with an empty handler list, and when
\* unregister(T, h) returns the handler h is not in the list of T.
C4_PrunedOnUnregister ==
    /\ []Pruned
    /\ [][\A c \in Callers, t \in Types, h \in Handlers :
            Unregistered(c, t, h) =>
                (handlers'[t] = NoList \/ h \notin Range(heap'[handlers'[t]]))
        ]_vars

\* C5: when the dispatch of an event ends, every handler that was in the
\* general list when it began and has not left that list since has been
\* called for the event as a general handler.
C5_GeneralForEveryType ==
    [][\A i \in Shards : DispatchEnds(i) =>
          \A h \in Range(w[i].snapG) :
              [h |-> h, kind |-> "general"] \notin w[i].gone
                  => Count(w[i].calls, h, "general") >= 1
      ]_vars

\* C6: dispatch order. When the dispatch of an event ends and the registry was
\* not changed during it, the calls made for the event are the handlers of
\* its type in the order of their list and then the general handlers in the
\* order of theirs, each once.
C6_DispatchOrder ==
    [][\A i \in Shards : (DispatchEnds(i) /\ ~w[i].dirty) =>
          w[i].calls = CallsOf(w[i].snapT, "type") \o CallsOf(w[i].snapG, "general")
      ]_vars

\* C7: once stop() has returned from its joins, every worker thread and the
\* timer thread have ended: no worker is in its loop, at its queue or in a
\* handler, and the timer will put nothing.
C7_StopJoinsAll ==
    stopRet => /\ \A i \in Shards : Finished(i)
               /\ tpc = "done"

\* stop() was called while a handler was running, and has returned
C7_Witness ==
    /\ stopRet
    /\ res.op = "stop"
    /\ res.busy /= {}

\* the controlling thread is inside stop()
InStop == mpc \in {"join_timer", "join_worker"}

\* C8: shutdown terminates. Whenever the controlling thread is inside stop(),
\* it eventually leaves it.
C8_StopReturns == InStop ~> (mpc = "idle")

\* stop() has returned on an engine that dispatched nothing and whose queue
\* still holds an event
C8_Witness ==
    /\ stopRet
    /\ \A i \in Shards : ended[i] = <<>>
    /\ \E i \in Shards : queues[i] /= <<>>

\* C9: stop() on a stopped engine raises nothing and changes nothing.
C9_StopWhileStoppedNoop ==
    [][(StopCall /\ ~active) =>
          /\ ~res'.err
          /\ UNCHANGED <<active, queues, handlers, heap, general, w, tpc>>
      ]_vars

\* C10: start() on a running engine raises and leaves the flag set and every
\* thread as it was: the call sets the flag that is set, and the first step
\* it takes after that ends it with an error.
C10_DoubleStartRejected ==
    [][/\ (StartCall /\ active) => (active' /\ UNCHANGED <<w, tpc>>)
       /\ (res.was /\ (StartWorker \/ StartTimer)) =>
             /\ res'.err
             /\ mpc' = "idle"
             /\ active'
             /\ UNCHANGED <<w, tpc>>
      ]_vars

\* start() was rejected on an engine whose N workers and timer are running
C10_Witness ==
    /\ mpc = "idle"
    /\ res.op = "start"
    /\ res.was
    /\ res.err
    /\ active
    /\ \A i \in Shards : Alive(w[i].pc)
    /\ tpc \in {"loop", "sleep"}

\* the payloads of the events of type t among the dispatches s, in order
Payloads(s, t) ==
    LET of == SelectSeq(s, LAMBDA x : x.ev.type = t)
    IN [k \in 1 .. Len(of) |-> of[k].ev.data]

\* C11: put before start. put() is possible in every state of the engine
\* (it does not block and is not refused, whatever the flag).  While no worker
\* thread was started, every event put is still in its queue and none was
\* dispatched.  The events of a type put before start() are dispatched in the
\* order they were put: the payloads of those whose dispatch has ended are
\* 1, 2, ... and the one in dispatch has the next payload.
C11_PutBeforeStart ==
    /\ nput < MaxPuts => \A t \in Types : ENABLED Put(t)
    /\ (\A i \in Shards : w[i].pc = "initial") =>
           /\ queues = enq
           /\ \A i \in Shards : ended[i] = <<>>
    /\ \A i \in Shards :
           /\ \A k \in 1 .. Len(Payloads(ended[i], "X")) :
                  Payloads(ended[i], "X")[k] = k
           /\ (Dispatching(i) /\ w[i].ev.type = "X") =>
                  w[i].ev.data = Len(Payloads(ended[i], "X")) + 1

\* two events of one type were put before start(); a handler was called with
\* payload 1, that dispatch has ended, and a handler is being called with
\* payload 2
C11_Witness ==
    \E i \in Shards :
        /\ InCall(i)
        /\ w[i].ev.type = "X"
        /\ w[i].ev.data = 2
        /\ Len(ended[i]) >= 1
        /\ \E k \in 1 .. Len(ended[i]) :
              /\ ended[i][k].ev.type = "X"
              /\ ended[i][k].ev.data = 1
              /\ ended[i][k].calls > 0

\* the step is a call of put(), by a producer or by the timer
Published == nput' = nput + 1 \/ ntick' = ntick + 1

\* the last event of type t was appended to queue i and nothing else changed
\* in the queues
AppendedTo(i, t) ==
    /\ Len(queues'[i]) = Len(queues[i]) + 1
    /\ SubSeq(queues'[i], 1, Len(queues[i])) = queues[i]
    /\ queues'[i][Len(queues'[i])].type = t
    /\ \A j \in Shards \ {i} : queues'[j] = queues[j]

\* C12: routing. A put() of an event of type t appends it to the queue of
\* index hash(t) mod N and to no other, and leaves the other queues, the
\* registry and the flag as they were; after it, no type has events that were
\* put on two different shards.
C12_Routing ==
    [][Published =>
          /\ \A t \in Types : Put(t) => AppendedTo(hashOf[t] % N, t)
          /\ TimerPut => AppendedTo(hashOf[EVENT_TIMER] % N, EVENT_TIMER)
          /\ UNCHANGED <<active, handlers, heap, general, hashOf>>
          /\ \A i, j \in Shards :
                \A k \in 1 .. Len(enq'[i]) : \A l \in 1 .. Len(enq'[j]) :
                    enq'[i][k].type = enq'[j][l].type => i = j
      ]_vars

\* two events of one type were put and are on one shard, while the other type
\* is routed to another shard and a handler list exists
C12_Witness ==
    \E i \in Shards :
        /\ Len(enq[i]) = 2
        /\ enq[i][1].type = enq[i][2].type
        /\ \E t \in Types : hashOf[t] % N /= i
        /\ \E t \in Types : handlers[t] /= NoList

\* if handler not in handler_list: handler_list.append(handler)
AppendNew(s, h) == IF h \in Range(s) THEN s ELSE Append(s, h)

\* if handler in handler_list: handler_list.remove(handler)
RemoveOld(s, h) == IF h \in Range(s) THEN Remove(s, h) ELSE s

\* The registry as a function from types to handler lists, a type without
\* key having the empty list, and one call applied to it as a whole.
NoHandlers == [t \in Types |-> <<>>]
Applied(reg, call) ==
    IF call.op = "register"
    THEN [reg EXCEPT ![call.t] = AppendNew(@, call.h)]
    ELSE [reg EXCEPT ![call.t] = RemoveOld(@, call.h)]

\* the calls cs applied one after the other in the order f, the first k of them
RECURSIVE AppliedInOrder(_, _, _)
AppliedInOrder(cs, f, k) ==
    IF k = 0 THEN NoHandlers
    ELSE Applied(AppliedInOrder(cs, f, k - 1), cs[f[k]])

Orders(n) == {f \in [1 .. n -> 1 .. n] : \A p, q \in 1 .. n : p /= q => f[p] /= f[q]}

\* the registries that the calls cs produce in some sequential order
Sequential(cs) == {AppliedInOrder(cs, f, Len(cs)) : f \in Orders(Len(cs))}

\* C13: registry calls are atomic under concurrency. No register or
\* unregister call ends with an error, and when every call has returned the
\* mapping has no empty list and is the result of the calls made, applied in
\* some sequential order.
C13_RegistryAtomic ==
    /\ \A c \in Callers : ~rc[c].err
    /\ Settled =>
           /\ \A t \in Types : handlers[t] /= NoList => heap[handlers[t]] /= <<>>
           /\ [t \in Types |-> ListOf(t)] \in Sequential(rcalls)

\* C14: dispatch is safe against concurrent registry mutation. When _process
\* returns for an event, every handler that stayed registered for the type of
\* the event during the whole dispatch was called exactly once for it as a
\* handler of the type, and every handler that stayed in the general list
\* exactly once as a general handler, whatever other handlers were registered
\* or unregistered meanwhile.
C14_DispatchSafe ==
    [][\A i \in Shards : Returns(i) =>
          \A h \in Handlers : \A kind \in {"type", "general"} :
              Stayed(i, h, kind) => Count(w[i].calls, h, kind) = 1
      ]_vars

\* C15: timer production stops with the engine. Every event of the timer
\* type has no payload and is on the shard put() routes its type to.  After
\* stop() is called the timer enqueues at most one more event, and once the
\* stop() has returned it enqueues nothing.
C15_TimerStops ==
    /\ [](/\ \A i \in Shards : \A k \in 1 .. Len(enq[i]) :
                enq[i][k].type = EVENT_TIMER =>
                    enq[i][k].data = NoData /\ i = hashOf[EVENT_TIMER] % N
          /\ res.op = "stop" => ntick <= mark.ticks + 1)
    /\ [][stopRet => ntick' = ntick]_vars

\* stop() has returned; the timer enqueued one more event after the call
\* was made, and that event is on its shard
C15_Witness ==
    /\ stopRet
    /\ res.op = "stop"
    /\ ~res.err
    /\ ntick = mark.ticks + 1
    /\ \E k \in 1 .. Len(enq[hashOf[EVENT_TIMER] % N]) :
          enq[hashOf[EVENT_TIMER] % N][k].type = EVENT_TIMER

\* the most events one shard can be given
MaxEvents == MaxPuts + MaxTicks + 1

\* stop() returns in this step
StopReturns == InStop /\ mpc' = "idle"

\* C16: shard isolation. While a worker stays inside a handler, no dispatch
\* ends on its shard and nothing leaves its queue, and stop() does not return
\* while any worker is inside a handler.  If the worker of the stalled shard
\* stays inside a handler forever, every event put on another shard is
\* dispatched as long as the engine is running.
C16_ShardIsolation ==
    /\ [][\A i \in Shards :
            (InCall(i) /\ w'[i].pc = w[i].pc /\ w'[i].calls = w[i].calls) =>
                /\ ended'[i] = ended[i]
                /\ IsPrefix(queues[i], queues'[i])]_vars
    /\ [][StopReturns => \A i \in Shards : ~InCall(i)]_vars
    /\ (<>[]InCall(Stalled)) =>
           \A j \in Shards \ {Stalled} : \A k \in 1 .. MaxEvents :
               (active /\ Len(enq[j]) >= k) ~> (Len(ended[j]) >= k \/ ~active)

\* start() returns in this step
StartReturns == mpc \in {"start_worker", "start_timer"} /\ mpc' = "idle"

\* C17: a failed lifecycle call does not corrupt state. A start() called on
\* an engine that was started and stopped, its flag clear, either succeeds,
\* the flag set and all N workers and the timer alive, or fails with the flag
\* left clear: it never leaves the flag set while no worker is alive.
C17_RestartKeepsState ==
    [][(StartReturns /\ stopRet /\ ~res.was) =>
          \/ /\ ~res'.err
             /\ active'
             /\ \A i \in Shards : Alive(w'[i].pc)
             /\ Alive(tpc')
          \/ /\ res'.err
             /\ ~active'
      ]_vars

\* C18: no work stealing and no duplication. The events put on shard i are,
\* in order and each once, those whose dispatch by worker i has ended, the
\* one worker i is dispatching, and those still in queue i; and every event
\* worker i has taken is of a type routed to shard i.
C18_NoStealing ==
    \A i \in Shards :
        /\ enq[i] = Events(ended[i]) \o InDispatch(i) \o queues[i]
        /\ \A k \in 1 .. Len(Events(ended[i]) \o InDispatch(i)) :
              hashOf[(Events(ended[i]) \o InDispatch(i))[k].type] % N = i

\* the events went to different shards, one worker has dispatched its event
\* and is idle at an empty queue while the other is inside a handler
C18_Witness ==
    \E i, j \in Shards :
        /\ i /= j
        /\ InCall(j)
        /\ Len(ended[i]) = 1
        /\ ended[i][1].calls > 0
        /\ queues[i] = <<>>
        /\ w[i].pc = "get"

\* C19: delivery liveness. If no handler ever raises, every event that is on
\* a shard of the running engine, put before or after start(), is eventually
\* dequeued and its dispatch ends; and when _process returns for an event,
\* every handler that stayed registered for its type and every handler that
\* stayed in the general list has been called for it.
C19_Delivery ==
    /\ [][\A i \in Shards : Returns(i) =>
            \A h \in Handlers : \A kind \in {"type", "general"} :
                Stayed(i, h, kind) => Count(w[i].calls, h, kind) >= 1]_vars
    /\ ([](\A i \in Shards : ~Raised(i))) =>
           \A j \in Shards : \A k \in 1 .. MaxDispatched :
               (active /\ Len(enq[j]) >= k) ~> (Len(ended[j]) >= k)

\* C20: bounded drain on shutdown. After stop() is called each worker takes
\* at most one more event from its queue.  Once the stop() has returned, the
\* events each queue holds are the last ones put on its shard, in the order
\* they were put, and no step dispatches an event or removes one from a
\* queue.
C20_BoundedDrain ==
    /\ [](/\ res.op = "stop" =>
                \A i \in Shards : Taken(i) <= mark.taken[i] + 1
          /\ stopRet => \A i \in Shards :
                queues[i] = SubSeq(enq[i], Taken(i) + 1, Len(enq[i])))
    /\ [][stopRet => /\ w' = w
                     /\ ended' = ended
                     /\ \A i \in Shards : IsPrefix(queues[i], queues'[i])]_vars

\* stop() has returned; a worker took one more event after the call was
\* made, and an event put by a client is still in its queue
C20_Witness ==
    /\ stopRet
    /\ res.op = "stop"
    /\ \E i \in Shards :
          /\ Taken(i) = mark.taken[i] + 1
          /\ queues[i] /= <<>>
          /\ queues[i][1].type = "X"

====
